---- MODULE Spec2Model ----
(***************************************************************************)
(* Model of train_net.py: the Trainer of EntitySAM.                        *)
(*                                                                         *)
(* Two specifications:                                                     *)
(*   Spec      the training path of main(): Trainer.__init__ (build_model, *)
(*             build_optimizer, build_train_loader, the rest of the        *)
(*             constructor), resume_or_load, and the iterations of train().*)
(*   SpecTest  calls of Trainer.test(cfg, model, evaluators), one loop     *)
(*             iteration per step, with build_test_loader and              *)
(*             build_evaluator.                                            *)
(*                                                                         *)
(* Names (parameter names, module names, dataset names) are sequences of   *)
(* string chunks; str.startswith is the prefix relation on them and the    *)
(* `in` test on strings is contiguous containment, so that                 *)
(* "sam_mask_decoder.transformer" is a prefix of                           *)
(* "sam_mask_decoder.transformer2.x" exactly as it is for Python strings.  *)
(*                                                                         *)
(* Learning rates, weight decays and clip values are floats in the code;   *)
(* they are drawn from small sets of integers here (a fixed-point unit).   *)
(*                                                                         *)
(* The names CocoClipDatasetMapper (lines 204, 236) and ImageNetEvaluator  *)
(* (line 172) are used by the file but imported nowhere in it. The model   *)
(* takes them as classes supplied by the collaborating packages, like the  *)
(* other mappers and evaluators; with the file exactly as it stands those  *)
(* three lines raise NameError.                                            *)
(***************************************************************************)
EXTENDS Integers, Sequences, FiniteSets, TLC

VARIABLES cfg, model, requires_grad, params, optimizer, data_loader, pc, error,
          iter, stepClips,
          evaluators, idx, results, evaluatorLog, inferenceLog, loaderLog,
          testPc, testError, returned

trainVars == <<model, requires_grad, params, optimizer, data_loader, pc, error,
               iter, stepClips>>
testVars == <<evaluators, idx, results, evaluatorLog, inferenceLog, loaderLog,
              testPc, testError, returned>>
vars == <<cfg, trainVars, testVars>>

(* ------------------------------ bounds --------------------------------- *)
\* number of distinct parameter objects (tensor identities)
MaxParams == 2
\* number of (module, local name) registrations in a module tree
MaxRegs == 2
\* length of cfg.DATASETS.TRAIN
MaxTrain == 2
\* cfg.SOLVER.MAX_ITER
MaxIter == 1
\* length of cfg.DATASETS.TEST
MaxDatasets == 2

\* sample values of cfg.SOLVER.BASE_LR and cfg.SOLVER.BACKBONE_MULTIPLIER
BaseRates == {1, 2}
Multipliers == {1, 2}
\* sample values of WEIGHT_DECAY, WEIGHT_DECAY_NORM, WEIGHT_DECAY_EMBED
Decays == {0, 1, 2}
\* sample values of cfg.SOLVER.CLIP_GRADIENTS.CLIP_VALUE (0 stands for 0.0)
ClipValues == {0, 1}
ClipTypes == {"full_model", "value", "norm"}
OptimizerTypes == {"SGD", "ADAMW", "ADAM"}
ModelNames == {"vitl", "vits", "vitb"}

(* ------------------------------ strings -------------------------------- *)
\* str.startswith(prefix)
StartsWith(s, prefix) ==
    Len(prefix) <= Len(s) /\ SubSeq(s, 1, Len(prefix)) = prefix

\* sub in s, for strings
Contains(s, sub) ==
    \E i \in 0..(Len(s) - Len(sub)) : SubSeq(s, i + 1, i + Len(sub)) = sub

(* --------------------------- the module tree --------------------------- *)
\* The places a parameter can be registered, in the order named_modules()
\* and each module's named_parameters(recurse=False) visit them. module is
\* the owning module's name, norm / embed say whether the owning module is an
\* instance of norm_module_types / torch.nn.Embedding, local is the name of
\* the parameter inside its module.
Slots == <<
    [module |-> <<>>, norm |-> FALSE, embed |-> FALSE,
     local |-> <<"offset_fc", "_scale">>],
    [module |-> <<"image_encoder", ".", "trunk">>, norm |-> FALSE, embed |-> FALSE,
     local |-> <<"absolute_pos_embed">>],
    [module |-> <<"backbone_feature_enhancement", ".", "image_encoder">>,
     norm |-> FALSE, embed |-> FALSE, local |-> <<"weight">>],
    [module |-> <<"backbone_feature_enhancement", ".", "image_encoder", ".", "ctm">>,
     norm |-> TRUE, embed |-> FALSE, local |-> <<"relative_position_bias_table">>],
    [module |-> <<"sam_mask_decoder", ".", "transformer", "2">>,
     norm |-> FALSE, embed |-> FALSE, local |-> <<"absolute_pos_embed", "_h">>],
    [module |-> <<"sam_mask_decoder", ".", "level_embed">>,
     norm |-> FALSE, embed |-> TRUE, local |-> <<"absolute_pos_embed">>]
  >>

SlotIds == 1..Len(Slots)
ParamIds == 1..MaxParams

\* A model is a partial function from slots to parameter objects: the same
\* object under two slots is a parameter shared by two module paths.
Trees ==
    UNION {[S -> ParamIds] : S \in {T \in SUBSET SlotIds : Cardinality(T) <= MaxRegs}}

\* the qualified name named_parameters() gives the parameter of a slot
QualifiedName(s) ==
    IF Slots[s].module = <<>> THEN Slots[s].local
    ELSE Slots[s].module \o <<".">> \o Slots[s].local

\* the parameter objects of a model
ParamsOf(m) == {m[s] : s \in DOMAIN m}

(* ------------------------------ build_model ---------------------------- *)
tune_name_list == <<
    <<"sam_mask_decoder", ".", "transformer">>,
    <<"sam_mask_decoder", ".", "queries">>,
    <<"sam_mask_decoder", ".", "iou_queries">>,
    <<"sam_mask_decoder", ".", "output_upscaling">>,
    <<"sam_mask_decoder", ".", "conv_s0">>,
    <<"sam_mask_decoder", ".", "conv_s1">>,
    <<"sam_mask_decoder", ".", "output_hypernetworks_mlps", ".", "0">>,
    <<"sam_mask_decoder", ".", "cls_prediction_head">>,
    <<"sam_mask_decoder", ".", "iou_prediction_head">>,
    <<"sam_mask_decoder", ".", "level_embed">>,
    <<"sam_mask_decoder", ".", "mask_embed">>,
    <<"point_sampler_net">>,
    <<"point_sampler_num">>,
    <<"offset_attention">>,
    <<"offset_embedding">>,
    <<"offset_fc">>,
    <<"offset_cls">>,
    <<"dinov2_projector">>,
    <<"backbone_feature_enhancement">>
  >>

\* any(n.startswith(prefix) for prefix in tune_name_list)
Tuned(n) == \E k \in 1..Len(tune_name_list) : StartsWith(n, tune_name_list[k])

\* model.named_parameters(): every parameter object once, under the name of
\* the first slot that holds it (duplicates are removed by identity).
RECURSIVE NamedParametersFrom(_, _, _)
NamedParametersFrom(m, s, seen) ==
    IF s > Len(Slots) THEN <<>>
    ELSE IF s \in DOMAIN m /\ m[s] \notin seen
         THEN <<[name |-> QualifiedName(s), param |-> m[s]]>>
                  \o NamedParametersFrom(m, s + 1, seen \cup {m[s]})
         ELSE NamedParametersFrom(m, s + 1, seen)

NamedParameters(m) == NamedParametersFrom(m, 1, {})

\* the loop of lines 139-146 without its else branch: a parameter outside the
\* allow-list keeps the flag it had
MaskFlagKeepElse(n, old) == IF Tuned(n) THEN TRUE ELSE old

\* the value the loop of lines 139-146 gives p.requires_grad
MaskFlag(n, old) == IF Tuned(n) THEN TRUE ELSE FALSE

ApplyMask(m, flags) ==
    LET np == NamedParameters(m)
    IN  [p \in ParamIds |->
           IF \E k \in 1..Len(np) : np[k].param = p
           THEN LET k == CHOOSE j \in 1..Len(np) : np[j].param = p
                IN  MaskFlag(np[k].name, flags[p])
           ELSE flags[p]]

(* ---------------------------- build_optimizer -------------------------- *)
\* lines 284-288 with the multiplier applied a second time, as the print of
\* line 288 computes it
GroupLrTwice(c, s) ==
    IF Contains(Slots[s].module, <<"image_encoder">>)
       /\ ~Contains(Slots[s].module, <<"ctm">>)
    THEN c.BASE_LR * c.BACKBONE_MULTIPLIER * c.BACKBONE_MULTIPLIER
    ELSE c.BASE_LR

\* hyperparams["lr"] of the group emitted at slot s (lines 284-288)
GroupLr(c, s) ==
    IF Contains(Slots[s].module, <<"image_encoder">>)
       /\ ~Contains(Slots[s].module, <<"ctm">>)
    THEN c.BASE_LR * c.BACKBONE_MULTIPLIER
    ELSE c.BASE_LR

\* "relative_position_bias_table" in module_param_name
\*     or "absolute_pos_embed" in module_param_name
PositionName(s) ==
    \/ Contains(Slots[s].local, <<"relative_position_bias_table">>)
    \/ Contains(Slots[s].local, <<"absolute_pos_embed">>)

\* lines 290-299 with the position-embedding rule moved last
GroupWeightDecayPositionLast(c, s) ==
    LET w0 == c.WEIGHT_DECAY
        w1 == IF Slots[s].norm THEN c.WEIGHT_DECAY_NORM ELSE w0
        w2 == IF Slots[s].embed THEN c.WEIGHT_DECAY_EMBED ELSE w1
    IN  IF PositionName(s) THEN 0 ELSE w2

\* hyperparams["weight_decay"] of the group emitted at slot s: the three ifs
\* of lines 290-299 run one after the other on the copy of the defaults
GroupWeightDecay(c, s) ==
    LET w0 == c.WEIGHT_DECAY
        w1 == IF PositionName(s) THEN 0 ELSE w0
        w2 == IF Slots[s].norm THEN c.WEIGHT_DECAY_NORM ELSE w1
        w3 == IF Slots[s].embed THEN c.WEIGHT_DECAY_EMBED ELSE w2
    IN  w3

\* {"params": [value], **hyperparams} (line 300)
Group(c, s, value) ==
    [params |-> <<value>>, lr |-> GroupLr(c, s), weight_decay |-> GroupWeightDecay(c, s)]

\* the loop of lines 275-300 from slot s on, memo being the parameters seen
RECURSIVE GroupsFrom(_, _, _, _, _)
GroupsFrom(c, m, flags, s, memo) ==
    IF s > Len(Slots) THEN <<>>
    ELSE IF s \notin DOMAIN m THEN GroupsFrom(c, m, flags, s + 1, memo)
    ELSE IF ~flags[m[s]] THEN GroupsFrom(c, m, flags, s + 1, memo)
    ELSE IF m[s] \in memo THEN GroupsFrom(c, m, flags, s + 1, memo)
    ELSE <<Group(c, s, m[s])>> \o GroupsFrom(c, m, flags, s + 1, memo \cup {m[s]})

\* the loop of lines 275-300 without the memo test of lines 280-281
RECURSIVE GroupsNoMemo(_, _, _, _)
GroupsNoMemo(c, m, flags, s) ==
    IF s > Len(Slots) THEN <<>>
    ELSE IF s \notin DOMAIN m THEN GroupsNoMemo(c, m, flags, s + 1)
    ELSE IF ~flags[m[s]] THEN GroupsNoMemo(c, m, flags, s + 1)
    ELSE <<Group(c, s, m[s])>> \o GroupsNoMemo(c, m, flags, s + 1)

BuildGroupsNoMemo(c, m, flags) == GroupsNoMemo(c, m, flags, 1)

\* params after the loop of lines 273-300
BuildGroups(c, m, flags) == GroupsFrom(c, m, flags, 1, {})

\* the enable predicate without its test of the clip scope
FullModelClippingAnyScope(c) == c.CLIP_ENABLED /\ c.CLIP_VALUE > 0

\* the enable predicate of maybe_add_full_model_gradient_clipping
FullModelClipping(c) ==
    c.CLIP_ENABLED /\ c.CLIP_TYPE = "full_model" /\ c.CLIP_VALUE > 0

\* line 330 without its test: the generic wrapper is always asked for
GenericClippingAlways(c) == TRUE

\* line 330: whether maybe_add_gradient_clipping is called
GenericClippingCalled(c) == ~(c.CLIP_TYPE = "full_model")

\* detectron2's maybe_add_gradient_clipping(cfg, optimizer): it returns the
\* optimizer unchanged unless clipping is enabled, and otherwise makes its
\* class one whose step() clips every parameter of every group and then runs
\* the wrapped step
GenericClippingWraps(c) == c.CLIP_ENABLED

\* lines 320-329 with a final else that falls back to AdamW
SupportedOptimizerAny(c) == TRUE

\* lines 320-329: the optimizer types that do not reach the raise
SupportedOptimizer(c) == c.OPTIMIZER \in {"SGD", "ADAMW"}

NoOptimizer == [base |-> "none", classes |-> <<>>, generic_called |-> FALSE,
                param_groups |-> <<>>]

\* the optimizer lines 319-332 return, given the groups: classes lists the
\* step() overrides from the outermost in
MakeOptimizer(c, groups) ==
    [base |-> IF c.OPTIMIZER = "SGD" THEN "SGD" ELSE "AdamW",
     classes |->
        (IF GenericClippingCalled(c) /\ GenericClippingWraps(c)
         THEN <<"OptimizerWithGradientClip">> ELSE <<>>)
        \o (IF FullModelClipping(c)
            THEN <<"FullModelGradientClippingOptimizer">> ELSE <<>>),
     generic_called |-> GenericClippingCalled(c),
     param_groups |-> groups]

(* --------------------------- build_train_loader ------------------------ *)
TrainNames == {
    <<"coco", "_2017_train">>,
    <<"coco", "_2017_train_", "panoptic">>,
    <<"sa_1b">>,
    <<"entityseg", "_train">>,
    <<"ytvis", "_2019_train">> }

\* the mapper lines 202-217 choose for a training dataset
TrainMapper(name) ==
    IF (StartsWith(name, <<"coco">>) /\ ~Contains(name, <<"panoptic">>))
       \/ StartsWith(name, <<"sa_1b">>)
    THEN "CocoClipDatasetMapper"
    ELSE IF StartsWith(name, <<"coco">>) /\ Contains(name, <<"panoptic">>)
    THEN "OpenVocabularyCocoPanoClipDatasetMapper"
    ELSE IF StartsWith(name, <<"entityseg">>)
    THEN "EntitySegClipDatasetMapper"
    ELSE "UniVidDatasetMapper"

NoLoader == [kind |-> "none", sources |-> <<>>]

\* lines 221-230, for a non-empty list of mappers
TrainLoader(train) ==
    LET mappers == [k \in 1..Len(train) |-> TrainMapper(train[k])]
    IN  IF Len(mappers) = 1
        THEN [kind |-> "single",
              sources |-> <<[dataset |-> train[1], mapper |-> mappers[1]]>>]
        ELSE [kind |-> "combined",
              sources |-> [k \in 1..Len(train) |->
                             [dataset |-> train[k], mapper |-> mappers[k]]]]

(* ------------------------------ optimizer.step ------------------------- *)
\* how many times one step() clips the gradients: each class of the
\* optimizer that overrides step() clips once and calls the next one
StepClips(opt) ==
    [full |-> Cardinality({k \in 1..Len(opt.classes) :
                  opt.classes[k] = "FullModelGradientClippingOptimizer"}),
     per_param |-> Cardinality({k \in 1..Len(opt.classes) :
                  opt.classes[k] = "OptimizerWithGradientClip"})]

NoClips == [full |-> 0, per_param |-> 0]

(* -------------------- the training path of main() ---------------------- *)
\* Trainer.build_model (line 75 calls it)
BuildModel ==
    /\ pc = "start"
    /\ IF cfg.MODEL_NAME \in {"vitl", "vits"}
       THEN /\ requires_grad' = ApplyMask(model, requires_grad)
            /\ pc' = "model"
            /\ error' = error
       ELSE /\ requires_grad' = requires_grad
            /\ pc' = "failed"
            /\ error' = "ValueError: Invalid model name"
    /\ UNCHANGED <<cfg, model, params, optimizer, data_loader, iter, stepClips, testVars>>

\* Trainer.build_optimizer (line 76 calls it). torch.optim refuses an empty
\* list of groups with a ValueError.
BuildOptimizer ==
    /\ pc = "model"
    /\ LET groups == BuildGroups(cfg, model, requires_grad)
       IN  /\ params' = groups
           /\ IF ~SupportedOptimizer(cfg)
              THEN /\ optimizer' = optimizer
                   /\ pc' = "failed"
                   /\ error' = "NotImplementedError: no optimizer type"
              ELSE IF groups = <<>>
              THEN /\ optimizer' = optimizer
                   /\ pc' = "failed"
                   /\ error' = "ValueError: optimizer got an empty parameter list"
              ELSE /\ optimizer' = MakeOptimizer(cfg, groups)
                   /\ pc' = "optimizer"
                   /\ error' = error
    /\ UNCHANGED <<cfg, model, requires_grad, data_loader, iter, stepClips, testVars>>

\* Trainer.build_train_loader (line 77 calls it)
BuildTrainLoader ==
    /\ pc = "optimizer"
    /\ IF Len(cfg.TRAIN) > 0
       THEN /\ data_loader' = TrainLoader(cfg.TRAIN)
            /\ pc' = "loader"
            /\ error' = error
       ELSE /\ data_loader' = data_loader
            /\ pc' = "failed"
            /\ error' = "AssertionError: No dataset is chosen!"
    /\ UNCHANGED <<cfg, model, requires_grad, params, optimizer, iter, stepClips, testVars>>

\* the rest of Trainer.__init__ (lines 79-97)
CompleteInit ==
    /\ pc = "loader"
    /\ pc' = "constructed"
    /\ iter' = 0
    /\ UNCHANGED <<cfg, model, requires_grad, params, optimizer, data_loader, error,
                   stepClips, testVars>>

\* trainer.resume_or_load (line 430)
ResumeOrLoad ==
    /\ pc = "constructed"
    /\ pc' = "loaded"
    /\ UNCHANGED <<cfg, model, requires_grad, params, optimizer, data_loader, error,
                   iter, stepClips, testVars>>

\* one iteration of trainer.train() (line 431): a step of the optimizer
RunStep ==
    /\ pc = "loaded"
    /\ iter < cfg.MAX_ITER
    /\ iter' = iter + 1
    /\ stepClips' = StepClips(optimizer)
    /\ UNCHANGED <<cfg, model, requires_grad, params, optimizer, data_loader, error,
                   pc, testVars>>

\* trainer.train() returns (line 431)
TrainReturn ==
    /\ pc = "loaded"
    /\ iter >= cfg.MAX_ITER
    /\ pc' = "done"
    /\ UNCHANGED <<cfg, model, requires_grad, params, optimizer, data_loader, error,
                   iter, stepClips, testVars>>

(* ------------------------------ build_evaluator ------------------------ *)
TestNames == {
    <<"coco", "_2017_val_panoptic">>,
    <<"ade20k", "_panoptic_val">>,
    <<"coco", "_2017_val">>,
    <<"lvis", "_v1_val">>,
    <<"imagenet", "_val">> }

\* MetadataCatalog.get(dataset_name).evaluator_type (line 170): the catalog
\* the datasets are registered in
EvaluatorType(name) ==
    IF name = <<"coco", "_2017_val_panoptic">> THEN "coco_panoptic_seg"
    ELSE IF name = <<"ade20k", "_panoptic_val">> THEN "ade20k_panoptic_seg"
    ELSE IF name = <<"coco", "_2017_val">> THEN "coco"
    ELSE IF name = <<"lvis", "_v1_val">> THEN "lvis"
    ELSE "imagenet"

Raised(exc) == [raised |-> exc, list |-> <<>>]
Listed(l) == [raised |-> "none", list |-> l]

\* lines 169-185: the evaluator list, or the exception raised on the way
EvaluatorList(c, type) ==
    IF type \in {"imagenet"} THEN Listed(<<"ImageNetEvaluator">>)
    ELSE IF type \in {"coco_panoptic_seg", "ade20k_panoptic_seg"}
    THEN IF c.PANOPTIC_ON THEN Listed(<<"COCOPanopticEvaluator">>)
         ELSE IF c.SEMANTIC_ON THEN Listed(<<"SemSegEvaluator">>)
         ELSE IF c.INSTANCE_ON THEN Listed(<<"COCOEvaluator">>)
         ELSE Raised("NotImplementedError")
    ELSE IF type \in {"coco"} THEN Listed(<<"COCOEvaluator">>)
    ELSE Raised("NotImplementedError")

\* Trainer.build_evaluator: the evaluator returned, or the exception raised
BuildEvaluator(c, name) ==
    LET el == EvaluatorList(c, EvaluatorType(name))
    IN  IF el.raised # "none" THEN [raised |-> el.raised, evaluator |-> "none"]
        ELSE IF Len(el.list) = 0
        THEN [raised |-> "NotImplementedError", evaluator |-> "none"]
        ELSE IF Len(el.list) = 1
        THEN [raised |-> "none", evaluator |-> el.list[1]]
        ELSE [raised |-> "NotImplementedError", evaluator |-> "none"]

(* ------------------------------ Trainer.test --------------------------- *)
\* the mapper build_test_loader chooses (lines 234-240)
TestMapper(name) ==
    IF StartsWith(name, <<"coco">>) \/ StartsWith(name, <<"refcoco">>)
       \/ StartsWith(name, <<"lvis">>)
    THEN "CocoClipDatasetMapper"
    ELSE "UniVidDatasetMapper"

\* the dictionary inference_on_dataset returns for a loader and an evaluator
InferenceResult(name, evaluator) ==
    [dataset |-> name, mapper |-> TestMapper(name), evaluator |-> evaluator]

\* {}
EmptyDict == [dataset |-> <<>>, mapper |-> "none", evaluator |-> "none"]

\* results[name] = value on an OrderedDict kept as a sequence of entries: a
\* key that is present keeps its place and takes the new value
Put(d, name, value) ==
    IF \E k \in 1..Len(d) : d[k].name = name
    THEN [k \in 1..Len(d) |-> IF d[k].name = name
                              THEN [name |-> name, value |-> value] ELSE d[k]]
    ELSE Append(d, [name |-> name, value |-> value])

Keys(d) == {d[k].name : k \in 1..Len(d)}

\* an except clause that catches nothing
CaughtNever(exc) == FALSE

\* except NotImplementedError (line 367)
Caught(exc) == exc = "NotImplementedError"

\* lines 350-357 of Trainer.test
TestEnter ==
    /\ testPc = "call"
    /\ LET evs == IF evaluators.kind = "single" THEN [kind |-> "list", n |-> 1]
                  ELSE evaluators
       IN  /\ evaluators' = evs
           /\ IF evs.kind # "none" /\ Len(cfg.TEST) # evs.n
              THEN testPc' = "raised" /\ testError' = "AssertionError"
              ELSE testPc' = "loop" /\ testError' = testError
    /\ UNCHANGED <<cfg, trainVars, idx, results, evaluatorLog, inferenceLog, loaderLog,
                   returned>>

\* one iteration of the loop of lines 358-384
TestDataset ==
    /\ testPc = "loop"
    /\ idx < Len(cfg.TEST)
    /\ LET name == cfg.TEST[idx + 1]
           built == BuildEvaluator(cfg, name)
       IN  /\ loaderLog' = Append(loaderLog, [dataset |-> name, mapper |-> TestMapper(name)])
           /\ IF evaluators.kind # "none"
              THEN /\ evaluatorLog' = evaluatorLog
                   /\ inferenceLog' = Append(inferenceLog, name)
                   /\ results' = Put(results, name, InferenceResult(name, "supplied"))
                   /\ idx' = idx + 1
                   /\ UNCHANGED <<testPc, testError>>
              ELSE /\ evaluatorLog' = Append(evaluatorLog,
                          [dataset |-> name, type |-> EvaluatorType(name),
                           raised |-> built.raised, evaluator |-> built.evaluator])
                   /\ IF built.raised = "none"
                      THEN /\ inferenceLog' = Append(inferenceLog, name)
                           /\ results' = Put(results, name,
                                             InferenceResult(name, built.evaluator))
                           /\ idx' = idx + 1
                           /\ UNCHANGED <<testPc, testError>>
                      ELSE IF Caught(built.raised)
                      THEN /\ results' = Put(results, name, EmptyDict)
                           /\ idx' = idx + 1
                           /\ UNCHANGED <<inferenceLog, testPc, testError>>
                      ELSE /\ testPc' = "raised"
                           /\ testError' = built.raised
                           /\ UNCHANGED <<inferenceLog, results, idx>>
    /\ UNCHANGED <<cfg, trainVars, evaluators, returned>>

\* lines 386-388: what test returns
TestResult(c, d) ==
    IF Len(d) = 1 THEN [plain |-> TRUE, value |-> d[1].value]
    ELSE [plain |-> FALSE, value |-> d]

TestReturn ==
    /\ testPc = "loop"
    /\ idx >= Len(cfg.TEST)
    /\ returned' = TestResult(cfg, results)
    /\ testPc' = "returned"
    /\ UNCHANGED <<cfg, trainVars, evaluators, idx, results, evaluatorLog, inferenceLog,
                   loaderLog, testError>>

(* ------------------------------ configurations ------------------------- *)
TrainLists == UNION {[1..n -> TrainNames] : n \in 0..MaxTrain}

DefaultCfg ==
    [MODEL_NAME |-> "vitl", BASE_LR |-> 1, BACKBONE_MULTIPLIER |-> 2,
     WEIGHT_DECAY |-> 1, WEIGHT_DECAY_NORM |-> 0, WEIGHT_DECAY_EMBED |-> 2,
     OPTIMIZER |-> "ADAMW", CLIP_ENABLED |-> TRUE, CLIP_TYPE |-> "full_model",
     CLIP_VALUE |-> 1, TRAIN |-> <<<<"ytvis", "_2019_train">>>>, MAX_ITER |-> MaxIter,
     TEST |-> <<>>, PANOPTIC_ON |-> FALSE, SEMANTIC_ON |-> FALSE, INSTANCE_ON |-> FALSE]

\* every model structure and every group hyperparameter, default solver
StructureCfgs ==
    {[DefaultCfg EXCEPT !.BASE_LR = r, !.BACKBONE_MULTIPLIER = m, !.WEIGHT_DECAY = w,
                        !.WEIGHT_DECAY_NORM = wn, !.WEIGHT_DECAY_EMBED = we] :
       r \in BaseRates, m \in Multipliers, w \in Decays, wn \in Decays, we \in Decays}

\* every solver and dataset setting, default group hyperparameters
SolverCfgs ==
    {[DefaultCfg EXCEPT !.MODEL_NAME = mn, !.OPTIMIZER = o, !.CLIP_ENABLED = ce,
                        !.CLIP_TYPE = ct, !.CLIP_VALUE = cv, !.TRAIN = tr] :
       mn \in ModelNames, o \in OptimizerTypes, ce \in BOOLEAN, ct \in ClipTypes,
       cv \in ClipValues, tr \in TrainLists}

\* the models the solver settings are tried on: at most one registration
SolverTrees == {m \in Trees : Cardinality(DOMAIN m) <= 1 /\ \A s \in DOMAIN m : m[s] = 1}

NoEvaluators == [kind |-> "none", n |-> 0]

TestIdle ==
    /\ evaluators = NoEvaluators
    /\ idx = 0
    /\ results = <<>>
    /\ evaluatorLog = <<>>
    /\ inferenceLog = <<>>
    /\ loaderLog = <<>>
    /\ testPc = "idle"
    /\ testError = "none"
    /\ returned = [plain |-> FALSE, value |-> <<>>]

TrainStart ==
    /\ params = <<>>
    /\ optimizer = NoOptimizer
    /\ data_loader = NoLoader
    /\ pc = "start"
    /\ error = "none"
    /\ iter = 0
    /\ stepClips = NoClips

\* a parameter that is in no slot is not part of the model: its flag is fixed
Flags(m) == {f \in [ParamIds -> BOOLEAN] : \A p \in ParamIds \ ParamsOf(m) : f[p]}

Init ==
    /\ \/ /\ cfg \in StructureCfgs
          /\ model \in Trees
       \/ /\ cfg \in SolverCfgs
          /\ model \in SolverTrees
    /\ requires_grad \in Flags(model)
    /\ TrainStart
    /\ TestIdle

Next ==
    \/ BuildModel
    \/ BuildOptimizer
    \/ BuildTrainLoader
    \/ CompleteInit
    \/ ResumeOrLoad
    \/ RunStep
    \/ TrainReturn

Spec == Init /\ [][Next]_vars

(* --------------------------- calls of Trainer.test --------------------- *)
TestLists == UNION {[1..n -> TestNames] : n \in 0..MaxDatasets}

TestCfgs ==
    {[DefaultCfg EXCEPT !.TEST = te, !.PANOPTIC_ON = po, !.SEMANTIC_ON = so,
                        !.INSTANCE_ON = io] :
       te \in TestLists, po \in BOOLEAN, so \in BOOLEAN, io \in BOOLEAN}

\* evaluators=None, a single DatasetEvaluator, or a list of them
EvaluatorArgs ==
    {NoEvaluators, [kind |-> "single", n |-> 1]}
        \cup {[kind |-> "list", n |-> k] : k \in 0..MaxDatasets}

InitTest ==
    /\ cfg \in TestCfgs
    /\ model = [s \in {6} |-> 1]
    /\ requires_grad = [p \in ParamIds |-> TRUE]
    /\ TrainStart
    /\ evaluators \in EvaluatorArgs
    /\ idx = 0
    /\ results = <<>>
    /\ evaluatorLog = <<>>
    /\ inferenceLog = <<>>
    /\ loaderLog = <<>>
    /\ testPc = "call"
    /\ testError = "none"
    /\ returned = [plain |-> FALSE, value |-> <<>>]

NextTest ==
    \/ TestEnter
    \/ TestDataset
    \/ TestReturn

SpecTest == InitTest /\ [][NextTest]_vars

(* ======================= properties of the trainer ===================== *)
\* build_model has returned
ModelBuilt == pc # "start" /\ error # "ValueError: Invalid model name"

\* the group loop of build_optimizer has run
GroupsBuilt == ModelBuilt /\ pc # "model"

\* the first slot, in traversal order, that holds parameter p: the module and
\* the name under which named_parameters() reports p. A parameter shared by
\* several module paths has this one qualified name and this one owner.
FirstSlot(m, p) == CHOOSE s \in DOMAIN m : m[s] = p /\ \A u \in DOMAIN m : m[u] = p => s <= u

GroupIndexes(p) == {k \in 1..Len(params) : \E j \in 1..Len(params[k].params) :
                                               params[k].params[j] = p}

Backbone(s) ==
    Contains(Slots[s].module, <<"image_encoder">>) /\ ~Contains(Slots[s].module, <<"ctm">>)

\* C1: after build_model returns, a parameter of the model is trainable if
\* and only if its qualified name starts with a prefix of tune_name_list, and
\* no frozen parameter is in a group that build_optimizer then builds.
C1_MaskIsAllowList ==
    /\ ModelBuilt =>
         \A p \in ParamsOf(model) :
            requires_grad[p] <=> Tuned(QualifiedName(FirstSlot(model, p)))
    /\ GroupsBuilt =>
         \A p \in ParamsOf(model) : ~requires_grad[p] => GroupIndexes(p) = {}

\* a model with a tuned and a frozen parameter, after build_optimizer
C1_Witness ==
    /\ pc = "optimizer"
    /\ \E p, q \in ParamsOf(model) :
          /\ requires_grad[p] /\ GroupIndexes(p) # {}
          /\ ~requires_grad[q] /\ GroupIndexes(q) = {}

\* C2: for every module tree, shared parameters included, each trainable
\* parameter is in exactly one group, no parameter is in two groups, and
\* each group holds exactly one parameter.
C2_OneGroupPerParameter ==
    GroupsBuilt =>
      /\ \A p \in ParamsOf(model) :
            /\ requires_grad[p] => Cardinality(GroupIndexes(p)) = 1
            /\ Cardinality(GroupIndexes(p)) <= 1
      /\ \A k \in 1..Len(params) : Len(params[k].params) = 1

\* a trainable parameter registered under two module paths, after the loop
C2_Witness ==
    /\ GroupsBuilt
    /\ \E s, u \in DOMAIN model :
          s # u /\ model[s] = model[u] /\ requires_grad[model[s]]
             /\ Cardinality(GroupIndexes(model[s])) = 1

\* C3: a trainable parameter whose owning module is under the backbone
\* (name contains image_encoder and not ctm) has the group learning rate
\* BASE_LR * BACKBONE_MULTIPLIER, every other one has BASE_LR.
C3_BackboneRate ==
    GroupsBuilt =>
      \A p \in ParamsOf(model) :
         requires_grad[p] =>
            /\ GroupIndexes(p) # {}
            /\ \A k \in GroupIndexes(p) :
                  params[k].lr = IF Backbone(FirstSlot(model, p))
                                 THEN cfg.BASE_LR * cfg.BACKBONE_MULTIPLIER
                                 ELSE cfg.BASE_LR

\* a backbone parameter and a multiplier that is not 1
C3_Witness ==
    /\ pc = "optimizer"
    /\ cfg.BACKBONE_MULTIPLIER = 2
    /\ \E p \in ParamsOf(model) :
          /\ requires_grad[p] /\ Backbone(FirstSlot(model, p))
          /\ \E k \in GroupIndexes(p) : params[k].lr = 2 * cfg.BASE_LR

\* C4: the optimizer build_optimizer returns never has both the full-model
\* clipping class and the generic wrapper: when the full-model class is
\* selected maybe_add_gradient_clipping is not applied, and the reverse.
C4_OneClippingWrapper ==
    optimizer # NoOptimizer =>
      LET full == \E k \in 1..Len(optimizer.classes) :
                     optimizer.classes[k] = "FullModelGradientClippingOptimizer"
          generic == \E k \in 1..Len(optimizer.classes) :
                     optimizer.classes[k] = "OptimizerWithGradientClip"
      IN  /\ ~(full /\ optimizer.generic_called)
          /\ ~(full /\ generic)

\* the full-model class selected
C4_Witness ==
    /\ pc = "optimizer"
    /\ optimizer.classes = <<"FullModelGradientClippingOptimizer">>
    /\ ~optimizer.generic_called

\* the flags among PANOPTIC_ON, SEMANTIC_ON, INSTANCE_ON that are on
FlagsOn(c) ==
    (IF c.PANOPTIC_ON THEN {"COCOPanopticEvaluator"} ELSE {})
       \cup (IF c.SEMANTIC_ON THEN {"SemSegEvaluator"} ELSE {})
       \cup (IF c.INSTANCE_ON THEN {"COCOEvaluator"} ELSE {})

\* C5: for a panoptic dataset build_evaluator returns the evaluator of the
\* one flag that is on, and raises with no flag or with two or more flags on;
\* for a tag it does not know it raises.
C5_EvaluatorDispatch ==
    \A k \in 1..Len(evaluatorLog) :
       LET e == evaluatorLog[k]
       IN  /\ e.type \in {"coco_panoptic_seg", "ade20k_panoptic_seg"} =>
                IF Cardinality(FlagsOn(cfg)) = 1
                THEN e.raised = "none" /\ e.evaluator \in FlagsOn(cfg)
                ELSE e.raised # "none"
           /\ e.type \notin {"coco_panoptic_seg", "ade20k_panoptic_seg", "coco", "imagenet"}
                => e.raised # "none"

\* C6: with one requested dataset test returns its result dictionary, with
\* two or more (a repeated name included) a mapping whose keys are the
\* requested names.
C6_ReturnShape ==
    testPc = "returned" =>
      /\ Len(cfg.TEST) = 1 =>
            returned.plain /\ returned.value = results[1].value
      /\ Len(cfg.TEST) >= 2 =>
            /\ ~returned.plain
            /\ Keys(returned.value) = {cfg.TEST[k] : k \in 1..Len(cfg.TEST)}

\* the names of a list in the order of their first occurrence
RECURSIVE FirstOccurrences(_)
FirstOccurrences(l) ==
    IF l = <<>> THEN <<>>
    ELSE LET front == FirstOccurrences(SubSeq(l, 1, Len(l) - 1))
             last == l[Len(l)]
         IN  IF \E k \in 1..Len(front) : front[k] = last THEN front
             ELSE Append(front, last)

Elements(l) == {l[k] : k \in 1..Len(l)}

C8_FailsAtSetup ==
    (~(cfg.OPTIMIZER \in {"SGD", "ADAMW"}) \/ Len(cfg.TRAIN) = 0) =>
      /\ pc \in {"start", "model", "optimizer", "failed"}
      /\ ~(ENABLED Next) => pc = "failed"
      /\ iter = 0 /\ stepClips = NoClips
      /\ ~(cfg.OPTIMIZER \in {"SGD", "ADAMW"}) => optimizer = NoOptimizer /\ pc # "optimizer"
      /\ Len(cfg.TRAIN) = 0 => data_loader = NoLoader

\* the constructor has failed on the optimizer type
C8_Witness ==
    /\ pc = "failed"
    /\ error = "NotImplementedError: no optimizer type"
    /\ cfg.OPTIMIZER = "ADAM"
    /\ optimizer = NoOptimizer /\ iter = 0

\* the weight decay the last applicable rule gives the group of slot s
LastRuleDecay(c, s) ==
    IF Slots[s].embed THEN c.WEIGHT_DECAY_EMBED
    ELSE IF Slots[s].norm THEN c.WEIGHT_DECAY_NORM
    ELSE IF PositionName(s) THEN 0
    ELSE c.WEIGHT_DECAY

\* C9: the weight decay of a group is that of the last applicable rule in the
\* order position-embedding name (0), normalization owner, embedding owner,
\* and the default when none applies; the backbone multiplier plays no part.
C9_WeightDecayOrder ==
    GroupsBuilt =>
      \A p \in ParamsOf(model) :
         \A k \in GroupIndexes(p) :
            params[k].weight_decay = LastRuleDecay(cfg, FirstSlot(model, p))

\* a normalization parameter named like a position embedding, decay not 0
C9_Witness ==
    /\ pc = "optimizer"
    /\ cfg.WEIGHT_DECAY_NORM = 2
    /\ \E p \in ParamsOf(model) :
          LET s == FirstSlot(model, p)
          IN  /\ Slots[s].norm /\ PositionName(s) /\ requires_grad[p]
              /\ \E k \in GroupIndexes(p) : params[k].weight_decay = 2

\* C10 as stated: with clipping enabled, whatever the scope and the clip
\* value, a step of the optimizer clips the gradients exactly once.
C10_ClipsOnceWhateverValue ==
    (cfg.CLIP_ENABLED /\ iter >= 1) => stepClips.full + stepClips.per_param = 1

\* C10 amended: with clipping enabled a step clips exactly once, except with
\* the full-model scope and a clip value that is not positive, where it does
\* not clip at all; it never clips twice.
C10_ClipsOnceIfPositive ==
    (cfg.CLIP_ENABLED /\ iter >= 1) =>
       stepClips.full + stepClips.per_param
          = IF cfg.CLIP_TYPE = "full_model" /\ cfg.CLIP_VALUE <= 0 THEN 0 ELSE 1

\* a step under per-parameter clipping
C10_Witness ==
    /\ iter >= 1
    /\ cfg.CLIP_ENABLED /\ cfg.CLIP_TYPE = "norm"
    /\ stepClips = [full |-> 0, per_param |-> 1]

====
